---- MODULE Spec2Model ----
(***************************************************************************)
(* Model of sensai/torch/torch_opt.py: the training loop NNOptimiser.fit   *)
(* with its best-model checkpoint, the loss evaluators, the optimiser      *)
(* wrapper _Optimiser and the model (de)serialisation of                   *)
(* WrappedTorchModule.                                                     *)
(*                                                                         *)
(* Python's None is the record None; a present value v is Some(v).         *)
(* Real numbers are exact rationals [num, den]; the validation metric of   *)
(* an epoch is an integer drawn from Vals (it depends on the network's     *)
(* outputs, which are not modelled).  A torch model is identified by the   *)
(* number of optimiser steps that produced its weights.                    *)
(***************************************************************************)
EXTENDS Integers, Sequences, FiniteSets, TLC

VARIABLES
    \* ---- inputs of NNOptimiser.__init__ / fit and the environment
    epochs,          \* NNOptimiser.epochs
    trainBatches,    \* per data set provider: number of batches of its training set
    valBatches,      \* per data set provider: number of batches of its validation set
    optCuda,         \* NNOptimiser.cuda
    cudaAvailable,   \* whether a CUDA device exists on the machine
    lossFn,          \* the loss evaluator's lossFn (which also fixes its class)
    \* ---- WrappedTorchModule
    cuda,            \* WrappedTorchModule.cuda
    torchModel,      \* WrappedTorchModule.model
    \* ---- NNOptimiser fields and the locals of fit
    pc,              \* position in fit / _loadModel
    exc,             \* the exception that left fit / _loadModel ("" if none)
    trainingLog,     \* NNOptimiser.trainingLog
    bestEpoch,       \* NNOptimiser.bestEpoch
    epoch, best_val, best_epoch, bestModelBytes, current_val, isNewBest,
    optim,           \* the _Optimiser built by fit
    \* ---- locals of _train
    tset,            \* index of the training set being iterated (0: none yet)
    remaining,       \* batches of that set iterBatches(shuffle=True) has not yielded yet
    n_samples,
    \* ---- locals of _evaluate and the validation part of fit
    vset,            \* index i of the validation set being evaluated (0: none yet)
    vbatch,          \* batches of that set already yielded by iterBatches(shuffle=False)
    groundTruthShape,
    metricsKeys,
    ev,              \* the loss evaluator's transient validation state
    \* ---- _loadModel
    modelFile,       \* the stream or path handed to _loadModel
    \* ---- history (not program state)
    vals,            \* current_val of every epoch that reached the comparison
    epochWeights,    \* the weights of the model at the end of each epoch's training
    stepCount,       \* per training set and batch: optimiser steps in this epoch
    evalCalls,       \* loss-evaluator calls made by the running _evaluate call
    startTrainingCalls,
    ckptEpoch,       \* the epoch whose model bestModelBytes holds (0: none)
    lrUsed,          \* the learning rate the optimiser had in each epoch's training
    loads,           \* the torch.load attempts of _loadModel: position and map_location
    completedEpochs, \* iterations of the epoch loop whose body ran to its end
    interrupted,     \* whether a KeyboardInterrupt was raised inside the epoch loop
    \* ---- _Optimiser.step
    gradBefore,      \* param.grad.data of every parameter as lossBackward left it
    grads,           \* param.grad.data of every parameter when the closure returns
    \* ---- two training processes and their loss evaluators
    sharing,         \* whether both processes were given the same evaluator instance
    evs,             \* the evaluator instances' validation state
    procs,           \* per process: its position in _evaluate and what it returned
    \* ---- _Optimiser.updateLearningRate
    lrTrace          \* per call: its arguments and the learning rate before and after

fitVars == <<epochs, trainBatches, valBatches, optCuda, cudaAvailable, lossFn, cuda,
             torchModel, pc, exc, trainingLog, bestEpoch, epoch, best_val, best_epoch,
             bestModelBytes, current_val, isNewBest, optim, tset, remaining, n_samples,
             vset, vbatch, groundTruthShape, metricsKeys, ev, modelFile, vals,
             epochWeights, stepCount, evalCalls, startTrainingCalls, ckptEpoch, lrUsed,
             loads, completedEpochs, interrupted>>

clipVars == <<gradBefore, grads>>
sharedVars == <<sharing, evs, procs>>
lrVars == <<lrTrace>>

vars == <<fitVars, clipVars, sharedVars, lrVars>>

None == [none |-> TRUE]
Some(v) == [val |-> v]

\* ------------------------------------------------------------------ bounds
MaxEpochs == 3
MaxSets == 2
MaxBatches == 2
MaxWeights == 2
MaxParams == 2
MaxGrad == 2
MaxClip == 3
MaxPasses == 2
MaxCalls == 3

\* best_val = 1e9 at the start of fit
BestValInit == 1000000000

\* metric values an epoch may produce: two below the initial best_val, and that value itself
Vals == {1, 2, BestValInit}

\* ------------------------------------------------------------------ rationals
Rat(n, d) == [num |-> n, den |-> d]
RatMul(a, b) == Rat(a.num * b.num, a.den * b.den)
RatEq(a, b) == a.num * b.den = b.num * a.den

\* ------------------------------------------------------------------ loss evaluators
RegressionLossFns == {"L1Loss", "L2Loss", "MSELoss", "SmoothL1Loss"}
ClassificationLossFns == {"CrossEntropy"}
LossFns == RegressionLossFns \cup ClassificationLossFns

GetValidationMetricNameSwapped(fn) ==
    IF fn \in RegressionLossFns
    THEN (IF fn \in {"L1Loss", "SmoothL1Loss"} THEN "MSE" ELSE "RMSE")
    ELSE "CE"

\* NNLossEvaluatorRegression/Classification.getValidationMetricName
GetValidationMetricName(fn) ==
    IF fn \in RegressionLossFns
    THEN (IF fn = "L1Loss" \/ fn = "SmoothL1Loss" THEN "MAE"
          ELSE IF fn = "L2Loss" \/ fn = "MSELoss" THEN "MSE"
          ELSE "AssertionError")
    ELSE (IF fn = "CrossEntropy" THEN "CE" ELSE "AssertionError")

\* keys of the OrderedDict built by endValidationCollection
MetricsKeys(fn) ==
    IF fn \in RegressionLossFns
    THEN <<"RRSE", "RAE", "MSE", "MAE">>
    ELSE <<"CE", "GeoMeanProbTrueClass">>

Range(s) == {s[i] : i \in DOMAIN s}

\* the evaluator after __init__: its transient members are None
EvInit == [acc |-> None]

\* startValidationCollection: the accumulators are reset
StartValidationCollection(e) == [e EXCEPT !.acc = Some(<<>>)]

\* collectValidationResultBatch: the batch is added to the accumulators
\* (raises TypeError when they are still None)
CollectValidationResultBatch(e, b) ==
    IF e.acc = None THEN e ELSE [e EXCEPT !.acc = Some(Append(e.acc.val, b))]

\* endValidationCollection: the metrics, computed over the batches accumulated since
\* the last startValidationCollection; None stands for the TypeError raised when the
\* accumulators are still None
EndValidationCollection(e, fn) ==
    IF e.acc = None THEN None
    ELSE Some([keys |-> MetricsKeys(fn), over |-> e.acc.val])

\* ------------------------------------------------------------------ serialisation
Magic == 80
DeviceCode(d) == IF d = "cuda" THEN 1 ELSE 0
CodeDevice(c) == IF c = 1 THEN "cuda" ELSE "cpu"

\* getModelBytes: torch.save(self.model, bytesIO); bytesIO.getvalue()
GetModelBytes(m) == <<Magic, DeviceCode(m.device), m.weights>>

\* io.BytesIO(modelBytes): a stream positioned at its start (BytesIO(None) is empty)
BytesIO(b) == [kind |-> "stream", data |-> IF b = None THEN <<>> ELSE b.val, pos |-> 0]

\* what a read gets: a stream is read from its position, a path is opened anew
Rest(f) == IF f.kind = "path" THEN f.data ELSE SubSeq(f.data, f.pos + 1, Len(f.data))

\* the file after a read to its end
AfterRead(f) == IF f.kind = "path" THEN f ELSE [f EXCEPT !.pos = Len(f.data)]

\* torch.load(f, map_location): the object pickled from the current position of the
\* stream to its end, its tensors on map_location (or where they were saved);
\* None stands for any exception (truncated or empty data, no CUDA device)
TorchLoad(f, mapLocation, avail) ==
    LET r == Rest(f)
        dev == IF mapLocation = None THEN CodeDevice(r[2]) ELSE mapLocation.val
    IN IF Len(r) # 3 \/ r[1] # Magic THEN None
       ELSE IF dev = "cuda" /\ ~avail THEN None
       ELSE Some([weights |-> r[3], device |-> dev])

\* ------------------------------------------------------------------ the log
Entry(t, n) == [tag |-> t, n |-> n]

\* ------------------------------------------------------------------ _Optimiser
\* optimiserClip=10. and optimiserLR=0.001 (as 1/1000), the defaults of NNOptimiser
OptimiserClip == 10
OptimiserLRDen == 1000
OptimiserLR == Rat(1, OptimiserLRDen)

\* _Optimiser.__init__ followed by _makeOptimizer (which clears use_shrinkage for lbfgs)
OptimiserInit(method, lr, max_grad_norm, lr_decay, start_decay_at) ==
    [last_ppl |-> None, lr |-> lr, max_grad_norm |-> max_grad_norm, method |-> method,
     lr_decay |-> lr_decay, start_decay_at |-> start_decay_at, start_decay |-> FALSE,
     use_shrinkage |-> (method # "lbfgs")]

\* updateLearningRate without the reset of start_decay
UpdateLearningRateSticky(o, ppl, ep) ==
    LET sd == \/ (o.start_decay_at # None /\ ep >= o.start_decay_at.val)
              \/ (o.last_ppl # None /\ ppl > o.last_ppl.val)
              \/ o.start_decay
    IN [o EXCEPT !.lr = IF sd THEN RatMul(o.lr, o.lr_decay) ELSE o.lr,
                 !.start_decay = sd,
                 !.last_ppl = Some(ppl)]

\* _Optimiser.updateLearningRate(ppl, epoch)
UpdateLearningRate(o, ppl, ep) ==
    LET sd == \/ (o.start_decay_at # None /\ ep >= o.start_decay_at.val)
              \/ (o.last_ppl # None /\ ppl > o.last_ppl.val)
              \/ o.start_decay
    IN [o EXCEPT !.lr = IF sd THEN RatMul(o.lr, o.lr_decay) ELSE o.lr,
                 !.start_decay = FALSE,
                 !.last_ppl = Some(ppl)]

\* ------------------------------------------------------------------ variable groups
\* what no step of fit or _loadModel changes: its inputs, and the state of the
\* other components
inputVars == <<epochs, trainBatches, valBatches, optCuda, cudaAvailable, lossFn>>
inVars == <<inputVars, clipVars, sharedVars, lrVars>>
ctlVars == <<pc, exc>>
\* the history of the epoch loop, which only LogEpoch, Checkpoint and Interrupt extend
runVars == <<completedEpochs, interrupted>>
logVars == <<trainingLog, bestEpoch>>
bestVars == <<epoch, best_val, best_epoch, bestModelBytes, current_val, isNewBest>>
trainVars == <<tset, remaining, n_samples>>
evalVars == <<vset, vbatch, groundTruthShape, metricsKeys, ev>>
histVars == <<vals, epochWeights, stepCount, evalCalls, startTrainingCalls, ckptEpoch,
              lrUsed, loads>>

NumSets == Len(trainBatches)

\* data set configurations: per provider the batch counts of its training and validation set
DataConfigs(ns, TB, VB) ==
    UNION {{<<t, v>> : t \in [1..n -> TB], v \in [1..n -> VB]} : n \in ns}

\* learning-rate decay configurations (optimiserLRDecay, startLRDecayAtEpoch):
\* the defaults (1, None) and a halving from epoch 2 on
DecayConfigs == {<<Rat(1, 1), None>>, <<Rat(1, 2), Some(2)>>}

\* the locals of fit, _train and _evaluate and the history before fit runs
LocalsInit ==
    /\ exc = ""
    /\ trainingLog = None /\ bestEpoch = None
    /\ epoch = 0 /\ best_val = BestValInit /\ best_epoch = 0 /\ bestModelBytes = None
    /\ current_val = 0 /\ isNewBest = FALSE
    /\ tset = 0 /\ remaining = {} /\ n_samples = 0
    /\ vset = 0 /\ vbatch = 0 /\ groundTruthShape = None /\ metricsKeys = None
    /\ ev = EvInit
    /\ vals = <<>> /\ epochWeights = <<>> /\ stepCount = <<>> /\ evalCalls = <<>>
    /\ startTrainingCalls = 0 /\ ckptEpoch = 0 /\ lrUsed = <<>> /\ loads = <<>>
    /\ completedEpochs = 0 /\ interrupted = FALSE

\* no gradient has been computed yet
ClipIdle == gradBefore = <<>> /\ grads = <<>>

\* no second training process
SharedIdle == sharing = FALSE /\ evs = <<>> /\ procs = <<>>

\* updateLearningRate has not been called
LRIdle == lrTrace = <<>>

\* the state after NNOptimiser.__init__ and the construction of the wrapped model,
\* before fit is called
FitInit(epochSet, dataCfgs, fns, decays, flags) ==
    /\ epochs \in epochSet
    /\ \E c \in dataCfgs : trainBatches = c[1] /\ valBatches = c[2]
    /\ \E f \in flags : optCuda = f[1] /\ cudaAvailable = f[2] /\ cuda = f[3]
    /\ lossFn \in fns
    /\ \E d \in decays :
          optim = OptimiserInit("adam", OptimiserLR, OptimiserClip, d[1], d[2])
    /\ torchModel = None
    /\ pc = "init"
    /\ modelFile = BytesIO(None)
    /\ LocalsInit /\ ClipIdle /\ SharedIdle /\ LRIdle

Raise(e) == pc' = "raised" /\ exc' = e

\* fit, lines 534-599: everything before the try block
FitBegin ==
    /\ pc = "init"
    /\ trainingLog' = [i \in 1..NumSets |-> Entry("DataSet", i)]
                        \o <<Entry("NumValSets", NumSets), Entry("NumParams", 0)>>
    /\ bestEpoch' = None
    /\ IF optCuda /\ ~cudaAvailable
       THEN \* _init_cuda: "CUDA is enabled but no device found"
            /\ Raise("Exception")
            /\ trainingLog' = <<>>
            /\ UNCHANGED <<torchModel, bestVars, optim, ev, startTrainingCalls>>
       ELSE /\ pc' = "loop" /\ exc' = ""
            /\ torchModel' = Some([weights |-> 0,
                                   device |-> IF optCuda THEN "cuda" ELSE "cpu"])
            /\ epoch' = 0 /\ best_val' = BestValInit /\ best_epoch' = 0
            /\ bestModelBytes' = None
            /\ UNCHANGED <<current_val, isNewBest>>
            /\ optim' = OptimiserInit(optim.method, optim.lr, optim.max_grad_norm,
                                      optim.lr_decay, optim.start_decay_at)
            /\ UNCHANGED ev
            /\ startTrainingCalls' = startTrainingCalls + 1
    /\ UNCHANGED <<inVars, runVars, cuda, trainVars, vset, vbatch, groundTruthShape, metricsKeys,
                   modelFile, vals, epochWeights, stepCount, evalCalls, ckptEpoch,
                   lrUsed, loads>>

\* for epoch in range(1, self.epochs + 1): the next epoch starts with _train
EpochBegin ==
    /\ pc = "loop" /\ epoch < epochs
    /\ epoch' = epoch + 1
    /\ pc' = "train"
    /\ tset' = 0 /\ remaining' = {} /\ n_samples' = 0
    /\ stepCount' = [s \in 1..NumSets |-> [b \in 1..trainBatches[s] |-> 0]]
    /\ lrUsed' = Append(lrUsed, optim.lr)
    /\ UNCHANGED <<inVars, runVars, cuda, torchModel, exc, logVars, best_val, best_epoch,
                   bestModelBytes, current_val, isNewBest, optim, evalVars, modelFile,
                   vals, epochWeights, evalCalls, startTrainingCalls, ckptEpoch, loads>>

\* _train: the outer loop moves on to the next training set
BatchesOfAllButLast(n) == 1..(n - 1)

\* dataSet.iterBatches(batch_size, shuffle=True): every batch of the set, once
BatchesOf(n) == 1..n

TrainNextSet ==
    /\ pc = "train" /\ remaining = {} /\ tset < NumSets
    /\ tset' = tset + 1
    /\ remaining' = BatchesOf(trainBatches[tset + 1])
    /\ UNCHANGED <<inVars, runVars, cuda, torchModel, ctlVars, logVars, bestVars, optim, n_samples,
                   evalVars, modelFile, histVars>>

\* _train: iterBatches(shuffle=True) yields one more batch, optim.step(closure) runs on it
TrainStep ==
    /\ pc = "train"
    /\ \E b \in remaining :
          /\ remaining' = remaining \ {b}
          /\ stepCount' = [stepCount EXCEPT ![tset][b] = @ + 1]
    /\ torchModel' = Some([torchModel.val EXCEPT !.weights = @ + 1])
    /\ n_samples' = n_samples + 1
    /\ UNCHANGED <<inVars, runVars, cuda, ctlVars, logVars, bestVars, optim, tset, evalVars,
                   modelFile, vals, epochWeights, evalCalls, startTrainingCalls,
                   ckptEpoch, lrUsed, loads>>

\* _train returns total_loss / n_samples
TrainReturn ==
    /\ pc = "train" /\ remaining = {} /\ tset = NumSets
    /\ IF n_samples = 0
       THEN Raise("ZeroDivisionError") /\ UNCHANGED <<vset, epochWeights>>
       ELSE /\ pc' = "evaluate" /\ exc' = ""
            /\ vset' = 0
            /\ epochWeights' = Append(epochWeights, torchModel.val.weights)
    /\ UNCHANGED <<inVars, runVars, cuda, torchModel, logVars, bestVars, optim, trainVars, vbatch,
                   groundTruthShape, metricsKeys, ev, modelFile, vals, stepCount,
                   evalCalls, startTrainingCalls, ckptEpoch, lrUsed, loads>>

\* fit calls _evaluate on the next validation set
EvalEnter ==
    /\ pc = "evaluate" /\ vset < NumSets
    /\ vset' = vset + 1
    /\ vbatch' = 0
    /\ groundTruthShape' = None
    /\ evalCalls' = <<>>
    /\ pc' = "inEvaluate"
    /\ UNCHANGED <<inVars, runVars, cuda, torchModel, exc, logVars, bestVars, optim, trainVars,
                   metricsKeys, ev, modelFile, vals, epochWeights, stepCount,
                   startTrainingCalls, ckptEpoch, lrUsed, loads>>

\* _evaluate: one iteration of the loop over iterBatches(shuffle=False)
EvalBatch ==
    /\ pc = "inEvaluate" /\ vbatch < valBatches[vset]
    /\ vbatch' = vbatch + 1
    /\ groundTruthShape' = Some(0)
    /\ LET started == IF groundTruthShape = None THEN StartValidationCollection(ev) ELSE ev
       IN ev' = CollectValidationResultBatch(started, <<vset, vbatch + 1>>)
    /\ evalCalls' = evalCalls \o (IF groundTruthShape = None THEN <<"start">> ELSE <<>>)
                              \o <<"collect">>
    /\ UNCHANGED <<inVars, runVars, cuda, torchModel, ctlVars, logVars, bestVars, optim, trainVars,
                   vset, metricsKeys, modelFile, vals, epochWeights, stepCount,
                   startTrainingCalls, ckptEpoch, lrUsed, loads>>

\* _evaluate returns self.lossEvaluator.endValidationCollection()
EvalEnd ==
    /\ pc = "inEvaluate" /\ vbatch = valBatches[vset]
    /\ evalCalls' = Append(evalCalls, "end")
    /\ LET metrics == EndValidationCollection(ev, lossFn)
       IN IF metrics = None
          THEN Raise("TypeError") /\ UNCHANGED metricsKeys
          ELSE /\ pc' = "evaluate" /\ exc' = ""
               /\ metricsKeys' = IF vset = 1 THEN Some(metrics.val.keys) ELSE metricsKeys
    /\ UNCHANGED <<inVars, runVars, cuda, torchModel, logVars, bestVars, optim, trainVars, vset,
                   vbatch, groundTruthShape, ev, modelFile, vals, epochWeights, stepCount,
                   startTrainingCalls, ckptEpoch, lrUsed, loads>>

\* fit, lines 620-624: the mean over the validation sets and the lookup of the
\* validation metric by name
Lookup ==
    /\ pc = "evaluate" /\ vset = NumSets
    /\ IF GetValidationMetricName(lossFn) \notin Range(metricsKeys.val)
       THEN Raise("KeyError") /\ UNCHANGED <<current_val, vals>>
       ELSE /\ pc' = "compare" /\ exc' = ""
            /\ \E v \in Vals : current_val' = v /\ vals' = Append(vals, v)
    /\ UNCHANGED <<inVars, runVars, cuda, torchModel, logVars, epoch, best_val, best_epoch,
                   bestModelBytes, isNewBest, optim, trainVars, evalVars, modelFile,
                   epochWeights, stepCount, evalCalls, startTrainingCalls, ckptEpoch,
                   lrUsed, loads>>

IsNewBestLeq(cur, best) == cur <= best

\* isNewBest = current_val < best_val
IsNewBest(cur, best) == cur < best

Compare ==
    /\ pc = "compare"
    /\ isNewBest' = IsNewBest(current_val, best_val)
    /\ pc' = IF isNewBest' THEN "setBestVal" ELSE "log"
    /\ UNCHANGED <<inVars, runVars, cuda, torchModel, exc, logVars, epoch, best_val, best_epoch,
                   bestModelBytes, current_val, optim, trainVars, evalVars, modelFile,
                   histVars>>

\* best_val = current_val
SetBestVal ==
    /\ pc = "setBestVal"
    /\ best_val' = current_val
    /\ pc' = "setBestEpoch"
    /\ UNCHANGED <<inVars, runVars, cuda, torchModel, exc, logVars, epoch, best_epoch,
                   bestModelBytes, current_val, isNewBest, optim, trainVars, evalVars,
                   modelFile, histVars>>

\* best_epoch = epoch
SetBestEpoch ==
    /\ pc = "setBestEpoch"
    /\ best_epoch' = epoch
    /\ pc' = "log"
    /\ UNCHANGED <<inVars, runVars, cuda, torchModel, exc, logVars, epoch, best_val,
                   bestModelBytes, current_val, isNewBest, optim, trainVars, evalVars,
                   modelFile, histVars>>

\* trainingLog('Epoch ...')
LogEpoch ==
    /\ pc = "log"
    /\ trainingLog' = Append(trainingLog, Entry("Epoch", epoch))
    /\ pc' = IF isNewBest THEN "checkpoint" ELSE "loop"
    \* without a new best the log call is the last statement of the loop body
    /\ completedEpochs' = IF isNewBest THEN completedEpochs ELSE completedEpochs + 1
    /\ UNCHANGED <<inVars, interrupted, cuda, torchModel, exc, bestEpoch, bestVars, optim, trainVars,
                   evalVars, modelFile, histVars>>

\* if isNewBest: bestModelBytes = model.getModelBytes()
Checkpoint ==
    /\ pc = "checkpoint"
    /\ bestModelBytes' = Some(GetModelBytes(torchModel.val))
    /\ ckptEpoch' = epoch
    /\ pc' = "loop"
    /\ completedEpochs' = completedEpochs + 1
    /\ UNCHANGED <<inVars, interrupted, cuda, torchModel, exc, logVars, epoch, best_val, best_epoch,
                   current_val, isNewBest, optim, trainVars, evalVars, modelFile, vals,
                   epochWeights, stepCount, evalCalls, startTrainingCalls, lrUsed, loads>>

\* the positions of fit inside the epoch loop
InLoop == {"loop", "train", "evaluate", "inEvaluate", "compare", "setBestVal",
           "setBestEpoch", "log", "checkpoint"}

\* the loop exhausted, or left as soon as an epoch's validation metric is no new best
TrainingCompleteOrStopEarly ==
    /\ pc = "loop" /\ (epoch = epochs \/ (epoch > 0 /\ ~isNewBest))
    /\ trainingLog' = Append(trainingLog, Entry("Training complete", 0))
    /\ pc' = "report"
    /\ UNCHANGED <<inVars, runVars, cuda, torchModel, exc, bestEpoch, bestVars, optim, trainVars,
                   evalVars, modelFile, histVars>>

\* the loop is exhausted: trainingLog("Training complete")
TrainingComplete ==
    /\ pc = "loop" /\ epoch = epochs
    /\ trainingLog' = Append(trainingLog, Entry("Training complete", 0))
    /\ pc' = "report"
    /\ UNCHANGED <<inVars, runVars, cuda, torchModel, exc, bestEpoch, bestVars, optim, trainVars,
                   evalVars, modelFile, histVars>>

\* except KeyboardInterrupt: trainingLog('Exiting from training early')
Interrupt ==
    /\ pc \in InLoop
    /\ trainingLog' = Append(trainingLog, Entry("Exiting from training early", 0))
    /\ pc' = "report"
    /\ interrupted' = TRUE
    /\ UNCHANGED <<inVars, completedEpochs, cuda, torchModel, exc, bestEpoch, bestVars, optim, trainVars,
                   evalVars, modelFile, histVars>>

\* trainingLog('Best model is from epoch ...'); self.bestEpoch = best_epoch
Report ==
    /\ pc = "report"
    /\ trainingLog' = Append(trainingLog, Entry("Best model is from epoch", best_epoch))
    /\ bestEpoch' = Some(best_epoch)
    /\ pc' = "reload"
    /\ UNCHANGED <<inVars, runVars, cuda, torchModel, exc, bestVars, optim, trainVars, evalVars,
                   modelFile, histVars>>

\* model.setModelBytes(bestModelBytes): modelFile = io.BytesIO(modelBytes), then _loadModel
SetModelBytes ==
    /\ pc = "reload"
    /\ modelFile' = BytesIO(bestModelBytes)
    /\ pc' = "load"
    /\ UNCHANGED <<inVars, runVars, cuda, torchModel, exc, logVars, bestVars, optim, trainVars,
                   evalVars, histVars>>

\* how far a failed torch.load may have read
FailPositions(f) == IF f.kind = "path" THEN {f.pos} ELSE f.pos..Len(f.data)

\* _loadModel: try: self.model = torch.load(modelFile)
LoadFirst ==
    /\ pc = "load"
    /\ loads' = Append(loads, [pos |-> modelFile.pos, map |-> "default"])
    /\ LET m == TorchLoad(modelFile, None, cudaAvailable)
       IN IF m # None
          THEN /\ torchModel' = m
               /\ modelFile' = AfterRead(modelFile)
               /\ pc' = "loaded" /\ exc' = ""
          ELSE /\ \E p \in FailPositions(modelFile) :
                     modelFile' = [modelFile EXCEPT !.pos = p]
               /\ UNCHANGED torchModel
               /\ IF cuda THEN pc' = "fallback" /\ exc' = "" ELSE Raise("LoadError")
    /\ UNCHANGED <<inVars, runVars, cuda, logVars, bestVars, optim, trainVars, evalVars, vals,
                   epochWeights, stepCount, evalCalls, startTrainingCalls, ckptEpoch,
                   lrUsed>>

SeekNot(f) == f

\* if type(modelFile) != str: modelFile.seek(0)   (a path is opened anew by torch.load)
Seek0(f) == IF f.kind # "path" THEN [f EXCEPT !.pos = 0] ELSE f

\* _loadModel, the except branch with CUDA enabled
LoadFallback ==
    /\ pc = "fallback"
    /\ LET f == Seek0(modelFile)
           m == TorchLoad(f, Some("cpu"), cudaAvailable)
       IN /\ loads' = Append(loads, [pos |-> f.pos, map |-> "cpu"])
          /\ IF m # None
             THEN /\ torchModel' = m
                  /\ cuda' = FALSE
                  /\ modelFile' = AfterRead(f)
                  /\ pc' = "loaded" /\ exc' = ""
             ELSE /\ \E p \in FailPositions(f) : modelFile' = [f EXCEPT !.pos = p]
                  /\ UNCHANGED <<torchModel, cuda>>
                  /\ Raise("LoadError")
    /\ UNCHANGED <<inVars, runVars, logVars, bestVars, optim, trainVars, evalVars, vals,
                   epochWeights, stepCount, evalCalls, startTrainingCalls, ckptEpoch,
                   lrUsed>>

FitNext ==
    \/ FitBegin \/ EpochBegin \/ TrainNextSet \/ TrainStep \/ TrainReturn
    \/ EvalEnter \/ EvalBatch \/ EvalEnd \/ Lookup \/ Compare \/ SetBestVal
    \/ SetBestEpoch \/ LogEpoch \/ Checkpoint \/ TrainingComplete \/ Interrupt
    \/ Report \/ SetModelBytes \/ LoadFirst \/ LoadFallback

\* fit on one data set provider with one training and one validation batch
Init == FitInit(0..MaxEpochs, DataConfigs({1}, {1}, {1}), LossFns, DecayConfigs,
                BOOLEAN \X BOOLEAN \X BOOLEAN)

Next == FitNext

Spec == Init /\ [][Next]_vars

\* fit on up to MaxSets data set providers whose training sets have 0..MaxBatches
\* batches (one validation batch each), on the CPU with the default decay
InitTrain == FitInit(0..MaxEpochs, DataConfigs(0..MaxSets, 0..MaxBatches, {1}),
                     {"MSELoss"}, {<<Rat(1, 1), None>>},
                     {<<FALSE, FALSE, FALSE>>, <<FALSE, FALSE, TRUE>>})

SpecTrain == InitTrain /\ [][Next]_vars

\* fit on 1..MaxSets data set providers whose validation sets have 0..MaxBatches
\* batches (one training batch each)
InitVal == FitInit(0..MaxEpochs, DataConfigs(1..MaxSets, {1}, 0..MaxBatches),
                   {"MSELoss", "CrossEntropy"}, {<<Rat(1, 1), None>>},
                   {<<FALSE, FALSE, FALSE>>, <<TRUE, TRUE, TRUE>>})

SpecVal == InitVal /\ [][Next]_vars

\* ------------------------------------------------------------------ _loadModel on its own
\* what a model file may hold: a model saved from either device, nothing at all, or
\* a truncated pickle
FileContents ==
    {GetModelBytes([weights |-> w, device |-> d]) : w \in 0..MaxWeights, d \in {"cpu", "cuda"}}
        \cup {<<>>, <<Magic, 1>>}

\* _loadModel is entered with a stream at its start or a path, on a machine with or
\* without a CUDA device, with the CUDA flag set or not
InitLoad ==
    /\ epochs = 0 /\ trainBatches = <<>> /\ valBatches = <<>> /\ lossFn = "MSELoss"
    /\ optCuda = FALSE
    /\ cudaAvailable \in BOOLEAN
    /\ cuda \in BOOLEAN
    /\ optim = OptimiserInit("adam", OptimiserLR, OptimiserClip, Rat(1, 1), None)
    /\ torchModel = None
    /\ pc = "load"
    /\ modelFile \in {[kind |-> k, data |-> d, pos |-> 0] :
                         k \in {"stream", "path"}, d \in FileContents}
    /\ LocalsInit /\ ClipIdle /\ SharedIdle /\ LRIdle

LoadNext == LoadFirst \/ LoadFallback

SpecLoad == InitLoad /\ [][LoadNext]_vars

\* ------------------------------------------------------------------ _Optimiser.step
\* Reals are exact.  grad_norm is the square root of an integer, so it is kept as
\* its square; shrinkage = max_grad_norm / grad_norm is kept as [num, denSq], which
\* stands for num / sqrt(denSq).
RECURSIVE SumSq(_)
SumSq(t) == IF t = <<>> THEN 0 ELSE Head(t) * Head(t) + SumSq(Tail(t))

\* grad_norm += math.pow(param.grad.data.norm(), 2), over all params
RECURSIVE GradNormSq(_)
GradNormSq(g) == IF g = <<>> THEN 0 ELSE SumSq(Head(g)) + GradNormSq(Tail(g))

One == [num |-> 1, denSq |-> 1]

ShrinkageNoSqrt(max, nsq) ==
    IF nsq > 0 THEN [num |-> max, denSq |-> nsq * nsq] ELSE One

\* grad_norm = math.sqrt(grad_norm);
\* shrinkage = max_grad_norm / grad_norm if grad_norm > 0 else 1.
Shrinkage(max, nsq) ==
    IF nsq > 0 THEN [num |-> max, denSq |-> nsq] ELSE One

\* shrinkage < 1
ShrinkageLessOne(sh) == sh.num < 0 \/ sh.num * sh.num < sh.denSq

\* closureWithShrinkage, after lossBackward() has left the gradients g:
\* for param in self.params: if shrinkage < 1: param.grad.data.mul_(shrinkage)
ClosureWithShrinkage(g, max) ==
    LET sh == Shrinkage(max, GradNormSq(g))
    IN [p \in DOMAIN g |->
           [g |-> g[p], scale |-> IF ShrinkageLessOne(sh) THEN sh ELSE One]]

\* closure = lossBackward: the gradients stay as computed
ClosurePlain(g) == [p \in DOMAIN g |-> [g |-> g[p], scale |-> One]]

\* the gradients lossBackward may compute: one scalar tensor per parameter
GradChoices == [1..MaxParams -> [1..1 -> (-MaxGrad)..MaxGrad]]

\* _Optimiser.step(lossBackward): self.optimizer.step(closure) runs the closure
OptimStep ==
    /\ \E g \in GradChoices :
          /\ gradBefore' = g
          /\ grads' = IF optim.use_shrinkage
                      THEN ClosureWithShrinkage(g, optim.max_grad_norm)
                      ELSE ClosurePlain(g)
    /\ UNCHANGED <<fitVars, sharedVars, lrVars>>

\* an _Optimiser of any method and any clip value, before its first step
InitClip ==
    /\ epochs = 0 /\ trainBatches = <<>> /\ valBatches = <<>> /\ lossFn = "MSELoss"
    /\ optCuda = FALSE /\ cudaAvailable = FALSE /\ cuda = FALSE
    /\ \E m \in {"adam", "sgd", "lbfgs"}, c \in 0..MaxClip :
          optim = OptimiserInit(m, OptimiserLR, c, Rat(1, 1), None)
    /\ torchModel = None
    /\ pc = "init"
    /\ modelFile = BytesIO(None)
    /\ LocalsInit /\ ClipIdle /\ SharedIdle /\ LRIdle

ClipNext == OptimStep

SpecClip == InitClip /\ [][ClipNext]_vars

\* ------------------------------------------------------------------ learning-rate decay
\* the validation performances a caller may pass as ppl
Ppls == {1, 2, 3}

\* (lr_decay, start_decay_at): no decay factor or a halving, without or with a start epoch
LRConfigs == {Rat(1, 1), Rat(1, 2)} \X {None, Some(2)}

\* one call of updateLearningRate(ppl, epoch) by the owner of the _Optimiser
UpdateLR ==
    /\ Len(lrTrace) < MaxCalls
    /\ \E ppl \in Ppls, ep \in 1..MaxEpochs :
          /\ optim' = UpdateLearningRate(optim, ppl, ep)
          /\ lrTrace' = Append(lrTrace, [ppl |-> ppl, epoch |-> ep,
                                         before |-> optim.lr, after |-> optim'.lr])
    /\ UNCHANGED <<inputVars, clipVars, sharedVars, runVars, cuda, torchModel, ctlVars,
                   logVars, bestVars, trainVars, evalVars, modelFile, histVars>>

\* an _Optimiser as __init__ leaves it, before the first updateLearningRate call
InitLR ==
    /\ epochs = 0 /\ trainBatches = <<>> /\ valBatches = <<>> /\ lossFn = "MSELoss"
    /\ optCuda = FALSE /\ cudaAvailable = FALSE /\ cuda = FALSE
    /\ \E c \in LRConfigs :
          optim = OptimiserInit("sgd", OptimiserLR, OptimiserClip, c[1], c[2])
    /\ torchModel = None
    /\ pc = "init"
    /\ modelFile = BytesIO(None)
    /\ LocalsInit /\ ClipIdle /\ SharedIdle /\ LRIdle

LRNext == UpdateLR

SpecLR == InitLR /\ [][LRNext]_vars

\* ------------------------------------------------------------------ two training processes
Procs == {1, 2}

EvOfFirst(p) == 1

\* self.lossEvaluator of process p: the one instance when it is shared, else its own
EvOf(p) == IF sharing THEN 1 ELSE p

\* process p calls _evaluate on its validation set
PEvalEnter(p) ==
    /\ procs[p].pc \in {"idle", "returned"}
    /\ procs[p].passes < MaxPasses
    /\ procs' = [procs EXCEPT ![p].pc = "inEvaluate", ![p].vbatch = 0,
                              ![p].groundTruthShape = None, ![p].result = None,
                              ![p].passes = @ + 1]
    /\ UNCHANGED <<fitVars, clipVars, lrVars, sharing, evs>>

\* _evaluate of process p: one iteration of the loop over iterBatches(shuffle=False)
PEvalBatch(p) ==
    /\ procs[p].pc = "inEvaluate" /\ procs[p].vbatch < procs[p].n
    /\ LET e == evs[EvOf(p)]
           started == IF procs[p].groundTruthShape = None
                      THEN StartValidationCollection(e) ELSE e
       IN evs' = [evs EXCEPT ![EvOf(p)] =
                     CollectValidationResultBatch(started, <<p, procs[p].vbatch + 1>>)]
    /\ procs' = [procs EXCEPT ![p].vbatch = @ + 1, ![p].groundTruthShape = Some(0)]
    /\ UNCHANGED <<fitVars, clipVars, lrVars, sharing>>

\* _evaluate of process p returns self.lossEvaluator.endValidationCollection()
PEvalEnd(p) ==
    /\ procs[p].pc = "inEvaluate" /\ procs[p].vbatch = procs[p].n
    /\ LET metrics == EndValidationCollection(evs[EvOf(p)], lossFn)
       IN procs' = [procs EXCEPT ![p].pc = IF metrics = None THEN "raised" ELSE "returned",
                                 ![p].result = metrics]
    /\ UNCHANGED <<fitVars, clipVars, lrVars, sharing, evs>>

\* two training processes, each with a validation set of 1..MaxBatches batches, given
\* one evaluator instance each or the same one
InitShared ==
    /\ epochs = 0 /\ trainBatches = <<>> /\ valBatches = <<>>
    /\ lossFn \in {"MSELoss", "CrossEntropy"}
    /\ optCuda = FALSE /\ cudaAvailable = FALSE /\ cuda = FALSE
    /\ optim = OptimiserInit("adam", OptimiserLR, OptimiserClip, Rat(1, 1), None)
    /\ torchModel = None
    /\ pc = "init"
    /\ modelFile = BytesIO(None)
    /\ LocalsInit /\ ClipIdle /\ LRIdle
    /\ sharing \in BOOLEAN
    /\ evs = [i \in Procs |-> EvInit]
    /\ \E n \in [Procs -> 1..MaxBatches] :
          procs = [p \in Procs |->
                      [pc |-> "idle", n |-> n[p], vbatch |-> 0, groundTruthShape |-> None,
                       result |-> None, passes |-> 0]]

SharedNext ==
    \/ \E p \in Procs : PEvalEnter(p)
    \/ \E p \in Procs : PEvalBatch(p)
    \/ \E p \in Procs : PEvalEnd(p)

SpecShared == InitShared /\ [][SharedNext]_vars

\* ------------------------------------------------------------------ claims on fit
MinOf(S) == CHOOSE m \in S : \A x \in S : m <= x

\* the smallest validation value seen so far, 1e9 included
RunningMin == MinOf({BestValInit} \cup Range(vals))

\* the earliest epoch whose value is the running minimum; 0 when none is below 1e9
EarliestBest ==
    IF RunningMin < BestValInit
    THEN MinOf({e \in DOMAIN vals : vals[e] = RunningMin})
    ELSE 0

FitReturned == pc = "loaded" /\ trainingLog # None

\* C1: whenever fit returns, the torch model held by the wrapped model is the
\* checkpoint taken at the end of the epoch that getBestEpoch() reports.
C1_RestoredModelIsBestEpoch ==
    FitReturned =>
        /\ bestEpoch.val \in DOMAIN epochWeights
        /\ torchModel.val.weights = epochWeights[bestEpoch.val]

\* C2: after every completed epoch e, best_val is the minimum of 1e9 and the
\* validation values of epochs 1..e and best_epoch is the earliest epoch that
\* attained it (0 when no value was below 1e9); getBestEpoch() returns best_epoch
\* after fit, which for a run of all epochs is that earliest best epoch.
C2_BestTracksEarliestMinimum ==
    /\ pc \in {"log", "checkpoint", "loop"} =>
          /\ Len(vals) = epoch
          /\ best_val = RunningMin
          /\ best_epoch = EarliestBest
    /\ pc \in {"reload", "load", "fallback", "loaded"} /\ trainingLog # None =>
          /\ bestEpoch = Some(best_epoch)
          /\ (\E i \in DOMAIN trainingLog : trainingLog[i].tag = "Training complete")
                => bestEpoch = Some(EarliestBest)

\* C2 witness: three epochs completed, the second and third tie for the minimum and
\* the second stays the best epoch
C2_Witness ==
    /\ pc = "loop" /\ epoch = 3
    /\ vals = <<2, 1, 1>>
    /\ best_epoch = 2 /\ best_val = 1

RECURSIVE RatPow(_, _)
RatPow(a, n) == IF n = 0 THEN Rat(1, 1) ELSE RatMul(a, RatPow(a, n - 1))

\* C3: with startLRDecayAtEpoch = k and optimiserLRDecay = d, the learning rate
\* the optimiser uses in an epoch e >= k is optimiserLR multiplied by d once for
\* each epoch from k to e.
C3_DecayAppliedFromStartEpoch ==
    \A e \in DOMAIN lrUsed :
        (optim.start_decay_at # None /\ e >= optim.start_decay_at.val) =>
            RatEq(lrUsed[e],
                  RatMul(OptimiserLR,
                         RatPow(optim.lr_decay, e - optim.start_decay_at.val + 1)))

\* the validation metric name the documentation gives for each loss function
DocumentedMetricName(fn) ==
    CASE fn \in {"L1Loss", "SmoothL1Loss"} -> "MAE"
      [] fn \in {"L2Loss", "MSELoss"} -> "MSE"
      [] fn = "CrossEntropy" -> "CE"

\* C6: for every loss evaluator and loss function, getValidationMetricName() is
\* the documented name and a key of the metrics of endValidationCollection(), so
\* the lookup of the current validation value in fit never raises KeyError.
C6_MetricNameIsKey ==
    /\ exc # "KeyError"
    /\ GetValidationMetricName(lossFn) = DocumentedMetricName(lossFn)
    /\ metricsKeys # None =>
          GetValidationMetricName(lossFn) \in Range(metricsKeys.val)

\* C6 witness: the lookup has succeeded for a SmoothL1Loss regression evaluator
C6_Witness ==
    /\ pc = "compare" /\ lossFn = "SmoothL1Loss"
    /\ metricsKeys = Some(<<"RRSE", "RAE", "MSE", "MAE">>)
    /\ current_val = 1

\* C10: when the reload step at the end of fit is reached, a best-model
\* checkpoint exists (bestModelBytes is not None).
C10_CheckpointExistsAtReload ==
    pc = "reload" => bestModelBytes # None

\* ------------------------------------------------------------------ claims on the data flow
\* the loss-evaluator calls _evaluate is to make on a validation set of n batches
RECURSIVE Collects(_)
Collects(n) == IF n = 0 THEN <<>> ELSE Append(Collects(n - 1), "collect")

ProtocolCalls(n) == <<"start">> \o Collects(n) \o <<"end">>

IsPrefix(a, b) == Len(a) <= Len(b) /\ SubSeq(b, 1, Len(a)) = a

\* C7: every _evaluate call on a validation set (of any size, empty included) calls
\* startValidationCollection exactly once, before any collectValidationResultBatch,
\* and endValidationCollection once after all batches; startTraining is called once
\* per fit before the first such call.
C7_EvaluatorProtocol ==
    /\ pc = "inEvaluate" => IsPrefix(evalCalls, ProtocolCalls(valBatches[vset]))
    /\ (evalCalls # <<>> /\ evalCalls[Len(evalCalls)] = "end") =>
          evalCalls = ProtocolCalls(valBatches[vset])
    /\ pc \notin {"init", "raised"} => startTrainingCalls = 1

ValidationPhase == {"evaluate", "inEvaluate", "compare", "setBestVal", "setBestEpoch",
                    "log", "checkpoint"}

\* C8: in every epoch each batch of each training set is given to exactly one
\* optimiser step, all of them before the validation of that epoch starts; the
\* validation of epoch e is complete, and its checkpoint taken if it was a new best,
\* before the training of epoch e+1 starts.
C8_EpochIsOneFullPass ==
    /\ \A s \in DOMAIN stepCount : \A b \in DOMAIN stepCount[s] : stepCount[s][b] <= 1
    /\ (pc \in ValidationPhase \/ (pc = "loop" /\ epoch >= 1)) =>
          /\ DOMAIN stepCount = 1..NumSets
          /\ \A s \in 1..NumSets :
                /\ DOMAIN stepCount[s] = 1..trainBatches[s]
                /\ \A b \in 1..trainBatches[s] : stepCount[s][b] = 1
    /\ pc = "train" =>
          /\ Len(vals) = epoch - 1
          /\ Len(epochWeights) = epoch - 1
          /\ best_epoch = ckptEpoch
          /\ best_epoch # 0 =>
                bestModelBytes =
                    Some(GetModelBytes([weights |-> epochWeights[best_epoch],
                                        device |-> torchModel.val.device]))

\* C8 witness: the second epoch has trained on both training sets (two batches and
\* one) and its validation is about to start; epoch 1 was a new best
C8_Witness ==
    /\ pc = "evaluate" /\ vset = 0 /\ epoch = 2
    /\ trainBatches = <<2, 1>>
    /\ stepCount = <<<<1, 1>>, <<1>>>>
    /\ ckptEpoch = 1

\* ------------------------------------------------------------------ claims on _loadModel
\* C5: when the first load attempt fails and CUDA is enabled, the stream is rewound
\* to its start and the load is retried mapped to CPU; if the retry succeeds the
\* model is the loaded model and the CUDA flag becomes False.  When the first
\* attempt succeeds, the CUDA flag is left unchanged.
C5_CudaFallback ==
    [][/\ (pc = "load" /\ pc' = "loaded") =>
             /\ cuda' = cuda
             /\ loads' = <<[pos |-> 0, map |-> "default"]>>
       /\ (pc = "load" /\ pc' # "loaded") =>
             IF cuda THEN pc' = "fallback" ELSE pc' = "raised"
       /\ pc = "fallback" =>
             /\ cuda
             /\ loads' = Append(loads, [pos |-> 0, map |-> "cpu"])
             /\ pc' = "loaded" =>
                   /\ cuda' = FALSE
                   /\ torchModel' = Some([weights |-> modelFile.data[3],
                                          device |-> "cpu"])
             /\ pc' # "loaded" => cuda' = cuda /\ torchModel' = torchModel]_vars

\* C5 witness: a stream holding a model saved on a CUDA device was loaded on a
\* machine without one: the first attempt failed, the retry on the CPU succeeded
C5_Witness ==
    /\ pc = "loaded" /\ trainingLog = None
    /\ modelFile.kind = "stream" /\ modelFile.data = <<Magic, 1, 2>>
    /\ loads = <<[pos |-> 0, map |-> "default"], [pos |-> 0, map |-> "cpu"]>>
    /\ torchModel = Some([weights |-> 2, device |-> "cpu"])
    /\ cuda = FALSE

\* ------------------------------------------------------------------ claims on _Optimiser.step
\* the square of the global L2 norm of the scaled gradients gs, times the product of
\* the scales' denominators, and that product
RECURSIVE ScaledNormSqNum(_, _)
ScaledNormSqNum(gs, dprod) ==
    IF gs = <<>> THEN 0
    ELSE SumSq(Head(gs).g) * Head(gs).scale.num * Head(gs).scale.num
             * (dprod \div Head(gs).scale.denSq)
         + ScaledNormSqNum(Tail(gs), dprod)

RECURSIVE DenProd(_)
DenProd(gs) == IF gs = <<>> THEN 1 ELSE Head(gs).scale.denSq * DenProd(Tail(gs))

NormAtMost(gs, max) == ScaledNormSqNum(gs, DenProd(gs)) <= max * max * DenProd(gs)

\* two scales stand for the same non-negative real
ScaleEq(a, b) ==
    /\ a.num >= 0 /\ b.num >= 0
    /\ a.num * a.num * b.denSq = b.num * b.num * a.denSq

\* C4: for a method that uses shrinkage, after the closure has run the global L2
\* norm of the gradients is at most max_grad_norm; when the norm before clipping
\* exceeds max_grad_norm every gradient is multiplied by max_grad_norm / norm, and
\* when it is zero or does not exceed max_grad_norm the gradients are unchanged.
C4_GradientClipping ==
    (grads # <<>> /\ optim.use_shrinkage) =>
        LET n == GradNormSq(gradBefore)
            m == optim.max_grad_norm
        IN /\ NormAtMost(grads, m)
           /\ DOMAIN grads = DOMAIN gradBefore
           /\ \A p \in DOMAIN grads :
                 /\ grads[p].g = gradBefore[p]
                 /\ ScaleEq(grads[p].scale,
                            IF n > m * m THEN [num |-> m, denSq |-> n] ELSE One)

\* C4 witness: gradients of norm sqrt(2*2 + 1*1) were clipped to max_grad_norm 2
C4_Witness ==
    /\ optim.use_shrinkage /\ optim.max_grad_norm = 2
    /\ gradBefore = <<<<2>>, <<-1>>>>
    /\ grads = <<[g |-> <<2>>, scale |-> [num |-> 2, denSq |-> 5]],
                 [g |-> <<-1>>, scale |-> [num |-> 2, denSq |-> 5]]>>

\* ------------------------------------------------------------------ claims on a shared evaluator
\* the batches of process p's own validation set, in order
OwnBatches(p) == [b \in 1..procs[p].n |-> <<p, b>>]

\* C9: with one evaluator instance per training process, the metrics that
\* endValidationCollection returns to a process are computed over exactly the
\* batches of its own validation pass, however the passes interleave (with a shared
\* instance they can include or lose batches: C9_Witness).
C9_OwnEvaluatorIsolated ==
    \A p \in DOMAIN procs :
        (~sharing /\ procs[p].pc = "returned") =>
            procs[p].result = Some([keys |-> MetricsKeys(lossFn), over |-> OwnBatches(p)])

\* C9 witness: the two processes share one instance and their passes interleaved:
\* the metrics returned to process 1 lost its own batch and include one of process 2
C9_Witness ==
    /\ sharing
    /\ procs[1].pc = "returned" /\ procs[1].n = 1
    /\ procs[1].result.val.over = <<<<2, 1>>>>

\* ------------------------------------------------------------------ C11, C12
\* the decay condition the documentation gives for call i: the start epoch is reached,
\* or ppl is not lower than the ppl of the call before
DocumentedDecay(i) ==
    \/ optim.start_decay_at # None /\ lrTrace[i].epoch >= optim.start_decay_at.val
    \/ i > 1 /\ lrTrace[i].ppl >= lrTrace[i - 1].ppl

\* C11: every updateLearningRate call multiplies lr by lr_decay when the start epoch is
\* reached or ppl is not lower than the previous call's ppl, leaves lr unchanged
\* otherwise (so the first call decays by the epoch condition only), and last_ppl is
\* the ppl of the latest call
C11_DecayWhenNotBetter ==
    /\ \A i \in DOMAIN lrTrace :
          RatEq(lrTrace[i].after,
                IF DocumentedDecay(i) THEN RatMul(lrTrace[i].before, optim.lr_decay)
                                      ELSE lrTrace[i].before)
    /\ lrTrace # <<>> => optim.last_ppl = Some(lrTrace[Len(lrTrace)].ppl)

\* the condition line 259-262 evaluate in call i
DecayCondition(i) ==
    \/ optim.start_decay_at # None /\ lrTrace[i].epoch >= optim.start_decay_at.val
    \/ i > 1 /\ lrTrace[i].ppl > lrTrace[i - 1].ppl

\* C12: between calls start_decay is False; each call leaves lr alone or multiplies it
\* by lr_decay once; and a call whose own condition does not hold leaves lr unchanged,
\* whatever the call before it did
C12_DecayLastsOneCall ==
    /\ optim.start_decay = FALSE
    /\ \A i \in DOMAIN lrTrace :
          /\ \/ lrTrace[i].after = lrTrace[i].before
             \/ lrTrace[i].after = RatMul(lrTrace[i].before, optim.lr_decay)
          /\ ~DecayCondition(i) => lrTrace[i].after = lrTrace[i].before
          /\ i > 1 => lrTrace[i].before = lrTrace[i - 1].after

\* a call that halved lr is followed by a call that left lr unchanged
C12_Witness ==
    \E i \in DOMAIN lrTrace :
        /\ i > 1
        /\ ~RatEq(lrTrace[i - 1].after, lrTrace[i - 1].before)
        /\ lrTrace[i].after = lrTrace[i].before

\* ------------------------------------------------------------------ C13, C14
\* the log has an entry with this tag
Has(tag) == \E i \in DOMAIN trainingLog : trainingLog[i].tag = tag

\* the 'Epoch' entries of the log, in log order
EpochEntries == SelectSeq(trainingLog, LAMBDA e : e.tag = "Epoch")

\* the entries 'Epoch 1' .. 'Epoch n'
EpochsUpTo(n) == [i \in 1..n |-> Entry("Epoch", i)]

\* fit is past its try/except and the two statements that follow it
AfterTry == pc \in {"reload", "load", "fallback", "loaded"} \/ exc = "LoadError"

\* C13: a KeyboardInterrupt raised inside the epoch loop does not leave fit; the log of
\* an interrupted run has 'Exiting from training early' and not 'Training complete', the
\* log of a run of all epochs the opposite; either way the log has one 'Epoch' entry per
\* fully completed epoch, in increasing order, ends with the 'Best model is from epoch'
\* line, and bestEpoch is set
C13_InterruptEndsTrainingEarly ==
    AfterTry =>
        /\ exc # "KeyboardInterrupt"
        /\ interrupted =>
              Has("Exiting from training early") /\ ~Has("Training complete")
        /\ ~interrupted =>
              Has("Training complete") /\ ~Has("Exiting from training early")
        /\ EpochEntries = EpochsUpTo(completedEpochs)
        /\ trainingLog[Len(trainingLog)] = Entry("Best model is from epoch", best_epoch)
        /\ bestEpoch = Some(best_epoch)

\* C14: a run that leaves the epoch loop without a KeyboardInterrupt or an error has run
\* every epoch 1..epochs once and in order, whatever the validation metrics were; and
\* at any time every epoch up to the current one was begun and none but the current one
\* is unfinished
C14_AllEpochsRun ==
    /\ Len(lrUsed) = epoch /\ epoch <= epochs
    /\ completedEpochs \in {epoch - 1, epoch} \cap Nat
    /\ (~interrupted /\ (pc = "report" \/ AfterTry)) =>
          /\ epoch = epochs /\ completedEpochs = epochs /\ Len(vals) = epochs
          /\ EpochEntries = EpochsUpTo(epochs)
          /\ Has("Training complete")

\* all of several epochs ran although no epoch after the first improved the metric
C14_Witness ==
    /\ pc = "loaded" /\ ~interrupted
    /\ epochs > 1 /\ completedEpochs = epochs /\ best_epoch = 1

====
